---- MODULE Spec2Model ----
(***************************************************************************)
(* Model of DockerDaemonDeployer (src/src/deployer.py): the deployer of    *)
(* Fatman workloads on a remote docker daemon.  Strings that the code      *)
(* builds, formats or parses (container names, the docker --format         *)
(* templates, the `docker ps` output lines, host:port) are sequences of    *)
(* one-character strings, so that formatting and parsing are computed and  *)
(* not assumed.  Every remote command of the code is one step.             *)
(***************************************************************************)
EXTENDS Integers, Sequences, FiniteSets, TLC

(* ---------------------------------------------------------------- bounds *)

\* Number of API calls (deploy, delete, exists, secrets) made on the deployer.
MaxCalls == 2

\* Largest containers_num a deploy is called with.
MaxContainers == 3

\* Largest number of stopped containers the host holds at a time.
MaxExited == 1

(* ------------------------------------------------------ program constants *)

\* deployer.py:23
FATMAN_INTERNAL_PORT == 7000

\* range(7000, 8000, 10) of _get_next_fatman_port, and its fallback
PortRangeStart == 7000
PortRangeStop == 8000
PortRangeStep == 10
PortFallback == 8000

\* `if e.returncode != 1: raise e` after docker network create
NetworkToleratedCode == 1

\* `for container_index in range(2)` of delete_fatman
DeleteSlots == 2

(* ------------------------------------------------------------------ text *)

Digit == <<"0", "1", "2", "3", "4", "5", "6", "7", "8", "9">>

IsDigit(ch) == \E d \in 1..10 : Digit[d] = ch

DigitValue(ch) == (CHOOSE d \in 1..10 : Digit[d] = ch) - 1

\* str(int) as the f-strings of the code format a number
RECURSIVE IntToStr(_)
IntToStr(n) ==
    IF n < 10 THEN <<Digit[n + 1]>>
    ELSE IntToStr(n \div 10) \o <<Digit[(n % 10) + 1]>>

\* int(match.group(2))
RECURSIVE StrToInt(_)
StrToInt(s) ==
    IF s = <<>> THEN 0
    ELSE 10 * StrToInt(SubSeq(s, 1, Len(s) - 1)) + DigitValue(s[Len(s)])

\* str.replace(old, new) for one-character old and new
ReplaceChar(s, old, new) == [i \in 1..Len(s) |-> IF s[i] = old THEN new ELSE s[i]]

\* str.strip(): leading and trailing blanks removed
RECURSIVE Strip(_)
Strip(s) ==
    IF s = <<>> THEN s
    ELSE IF s[1] = " " THEN Strip(Tail(s))
    ELSE IF s[Len(s)] = " " THEN Strip(SubSeq(s, 1, Len(s) - 1))
    ELSE s

StartsWith(s, prefix) ==
    /\ Len(s) >= Len(prefix)
    /\ SubSeq(s, 1, Len(prefix)) = prefix

\* What a Python f-string literal evaluates to where it holds no replacement
\* field: a doubled brace is one brace.
RECURSIVE FString(_)
FString(src) ==
    IF src = <<>> THEN <<>>
    ELSE IF Len(src) >= 2 /\ src[1] = "{" /\ src[2] = "{"
        THEN <<"{">> \o FString(SubSeq(src, 3, Len(src)))
    ELSE IF Len(src) >= 2 /\ src[1] = "}" /\ src[2] = "}"
        THEN <<"}">> \o FString(SubSeq(src, 3, Len(src)))
    ELSE <<src[1]>> \o FString(Tail(src))

\* The text of the --format argument as it stands in the source of
\* _container_exists: "{{{{.Names}}}}"
ExistsFormatSource ==
    <<"{", "{", "{", "{", ".", "N", "a", "m", "e", "s", "}", "}", "}", "}">>

\* The text of the --format argument as it stands in the source of
\* _get_next_fatman_port: "{{.Names}} {{.Ports}}"
PortsFormatSource ==
    <<"{", "{", ".", "N", "a", "m", "e", "s", "}", "}", " ",
      "{", "{", ".", "P", "o", "r", "t", "s", "}", "}">>

FATMAN_PREFIX == <<"f", "a", "t", "m", "a", "n", "-">>

(* ----------------------------------------------------------------- names *)

\* fatman_resource_name of racetrack_commons: f'fatman-{name}-v-{version}'
\* with every '.' replaced by '-'
fatman_resource_name(name, version) ==
    ReplaceChar(FATMAN_PREFIX \o name \o <<"-", "v", "-">> \o version, ".", "-")

\* a container name with the index appended whatever the index is
get_container_name_always_suffixed(resource_name, container_index) ==
    resource_name \o <<"-">> \o IntToStr(container_index)

\* get_container_name
get_container_name(resource_name, container_index) ==
    IF container_index = 0 THEN resource_name
    ELSE resource_name \o <<"-">> \o IntToStr(container_index)

(* ------------------------------------------------------- the docker host *)

\* A container of the docker host: its name, its state ("running", "exited"
\* or "created": created but never started), the host port published with
\* -p (0: none), and the number of the call that launched it.
Container(name, state, port, launch) ==
    [name |-> name, state |-> state, port |-> port, launch |-> launch]

\* The {{.Ports}} column of docker ps: only a running container binds its
\* published port.
PortsText(c) ==
    IF c.state = "running" /\ c.port # 0
    THEN <<"0", ".", "0", ".", "0", ".", "0", ":">> \o IntToStr(c.port)
         \o <<"-", ">">> \o IntToStr(FATMAN_INTERNAL_PORT) \o <<"/", "t", "c", "p">>
    ELSE <<>>

FieldValue(field, c) ==
    IF field = <<".", "N", "a", "m", "e", "s">> THEN c.name
    ELSE IF field = <<".", "P", "o", "r", "t", "s">> THEN PortsText(c)
    ELSE <<>>

\* docker's rendering of a --format template for one container: an action
\* between "{{" and "}}" is replaced by the field it names, any other text is
\* copied as it is.
RECURSIVE GoTemplate(_, _)
GoTemplate(t, c) ==
    IF t = <<>> THEN <<>>
    ELSE IF Len(t) >= 2 /\ t[1] = "{" /\ t[2] = "{"
                /\ \E j \in 3..(Len(t) - 1) : t[j] = "}" /\ t[j + 1] = "}"
        THEN LET close == CHOOSE j \in 3..(Len(t) - 1) :
                              /\ t[j] = "}" /\ t[j + 1] = "}"
                              /\ \A i \in 3..(j - 1) : ~(t[i] = "}" /\ t[i + 1] = "}")
             IN  FieldValue(SubSeq(t, 3, close - 1), c)
                 \o GoTemplate(SubSeq(t, close + 2, Len(t)), c)
    ELSE <<t[1]>> \o GoTemplate(Tail(t), c)

\* docker ps -a --filter "name=^/<container_name>$" --format <format>:
\* the output lines (their order and multiplicity are read by no caller).
DockerPsAllByName(cs, container_name, format) ==
    { GoTemplate(format, c) : c \in { x \in cs : x.name = container_name } }

\* docker ps --filter "name=^/fatman-" --format <format>: running containers only
DockerPsRunningFatmen(cs, format) ==
    { GoTemplate(format, c) :
        c \in { x \in cs : x.state = "running" /\ StartsWith(x.name, FATMAN_PREFIX) } }

\* a _container_exists that takes any container whose name begins with
\* container_name for the container asked for
ContainerExistsByPrefix(cs, container_name) ==
    \E c \in cs : StartsWith(c.name, container_name)

\* _container_exists: container_name in output.splitlines()
ContainerExists(cs, container_name) ==
    container_name \in DockerPsAllByName(cs, container_name, FString(ExistsFormatSource))

NoMatch == 0 - 1

\* re.fullmatch(r'fatman-(.+) .+:(\d+)->.*', line.strip()), then
\* int(match.group(2)); NoMatch when the line does not match.  Both .+ are
\* greedy: the blank is the last one that allows a match, and so is the colon.
MatchPort(rawline) ==
    LET line == Strip(rawline)
        n == Len(line)
        DigitsEnd(j) ==
            { k \in (j + 1)..(n - 2) :
                /\ \A m \in (j + 1)..k : IsDigit(line[m])
                /\ line[k + 1] = "-" /\ line[k + 2] = ">" }
        Colons(i) == { j \in (i + 2)..n : line[j] = ":" /\ DigitsEnd(j) # {} }
        Blanks == { i \in (Len(FATMAN_PREFIX) + 2)..n : line[i] = " " /\ Colons(i) # {} }
    IN  IF ~StartsWith(line, FATMAN_PREFIX) \/ Blanks = {} THEN NoMatch
        ELSE LET i == CHOOSE x \in Blanks : \A y \in Blanks : y <= x
                 j == CHOOSE x \in Colons(i) : \A y \in Colons(i) : y <= x
                 k == CHOOSE x \in DigitsEnd(j) : TRUE
             IN  StrToInt(SubSeq(line, j + 1, k))

\* occupied_ports of _get_next_fatman_port
OccupiedPorts(cs) ==
    { MatchPort(line) : line \in DockerPsRunningFatmen(cs, FString(PortsFormatSource)) }
        \ {NoMatch}

PortCandidates ==
    { p \in PortRangeStart..(PortRangeStop - 1) : (p - PortRangeStart) % PortRangeStep = 0 }

\* a scan that walks the range from its upper end
FirstFreePortFromTheTop(occupied) ==
    IF PortCandidates \subseteq occupied THEN PortFallback
    ELSE CHOOSE p \in PortCandidates \ occupied :
            \A q \in PortCandidates \ occupied : p >= q

\* the scan of _get_next_fatman_port over range(7000, 8000, 10)
FirstFreePort(occupied) ==
    IF PortCandidates \subseteq occupied THEN PortFallback
    ELSE CHOOSE p \in PortCandidates \ occupied :
            \A q \in PortCandidates \ occupied : p <= q

get_next_fatman_port(cs) == FirstFreePort(OccupiedPorts(cs))

(* --------------------------------------------------------------- env vars *)

\* A Dict[str, str] is a function from its keys.
EmptyDict == [k \in {} |-> ""]

\* merge_env_vars of racetrack_client: the mappings merged in order, a later
\* one overriding an earlier one on a shared key
merge_env_vars(a, b) ==
    [k \in (DOMAIN a) \cup (DOMAIN b) |-> IF k \in DOMAIN b THEN b[k] ELSE a[k]]

\* common_env_vars with the user-module hostname reserved whatever containers_num is
common_env_vars_hostname_always(manifest, telemetry, containers_num, timestamp, resource_name) ==
    LET base == [PUB_URL |-> "internal_pub_url",
                 FATMAN_NAME |-> manifest.name,
                 AUTH_TOKEN |-> "auth_token",
                 FATMAN_DEPLOYMENT_TIMESTAMP |-> timestamp,
                 REQUEST_TRACING_HEADER |-> "tracing_header"]
        tele == IF telemetry
                THEN merge_env_vars(base, [OPENTELEMETRY_ENDPOINT |-> "open_telemetry_endpoint"])
                ELSE base
    IN  merge_env_vars(tele,
            [FATMAN_USER_MODULE_HOSTNAME |-> get_container_name(resource_name, 1)])

\* common_env_vars of deploy_fatman
common_env_vars(manifest, telemetry, containers_num, timestamp, resource_name) ==
    LET base == [PUB_URL |-> "internal_pub_url",
                 FATMAN_NAME |-> manifest.name,
                 AUTH_TOKEN |-> "auth_token",
                 FATMAN_DEPLOYMENT_TIMESTAMP |-> timestamp,
                 REQUEST_TRACING_HEADER |-> "tracing_header"]
        tele == IF telemetry
                THEN merge_env_vars(base, [OPENTELEMETRY_ENDPOINT |-> "open_telemetry_endpoint"])
                ELSE base
    IN  IF containers_num > 1
        THEN merge_env_vars(tele,
                [FATMAN_USER_MODULE_HOSTNAME |-> get_container_name(resource_name, 1)])
        ELSE tele

\* a conflict check that stops at the first shared key
ConflictsFirstOnly(common, runtime) ==
    LET shared == (DOMAIN common) \cap (DOMAIN runtime)
    IN  IF shared = {} THEN {} ELSE {CHOOSE k \in shared : TRUE}

\* conflicts = common_env_vars.keys() & runtime_env_vars.keys()
Conflicts(common, runtime) == (DOMAIN common) \cap (DOMAIN runtime)

\* a loop over plugin_vars_list in which, of two mappings with the same key,
\* the earlier one keeps it
MergePluginVarsKeepEarlier(vars, plugin_vars_list) ==
    LET idx == DOMAIN plugin_vars_list
        keys == (DOMAIN vars) \cup UNION { DOMAIN plugin_vars_list[i] : i \in idx }
        First(k) == CHOOSE i \in idx :
                        /\ k \in DOMAIN plugin_vars_list[i]
                        /\ \A j \in idx : k \in DOMAIN plugin_vars_list[j] => i <= j
    IN  [k \in keys |->
            IF \E i \in idx : k \in DOMAIN plugin_vars_list[i]
            THEN plugin_vars_list[First(k)][k]
            ELSE vars[k]]

\* the loop over plugin_vars_list: every non-empty mapping merged in order
RECURSIVE MergePluginVars(_, _)
MergePluginVars(vars, plugin_vars_list) ==
    IF plugin_vars_list = <<>> THEN vars
    ELSE MergePluginVars(
            IF DOMAIN Head(plugin_vars_list) # {}
            THEN merge_env_vars(vars, Head(plugin_vars_list))
            ELSE vars,
            Tail(plugin_vars_list))

\* a ports_mapping that publishes no port at all
PortsMappingNone(container_index, fatman_port) == 0

\* a ports_mapping that publishes the port on every container
PortsMappingEveryIndex(container_index, fatman_port) == fatman_port

\* ports_mapping of the run command: only the container of index 0 publishes
\* the allocated port (0: no -p flag)
PortsMapping(container_index, fatman_port) ==
    IF container_index = 0 THEN fatman_port ELSE 0

\* `if e.returncode != 1: raise e`: the failure of docker network create is
\* swallowed when this holds
NetworkErrorSwallowed(returncode) == returncode = NetworkToleratedCode

(* ----------------------------------------------------------------- inputs *)

Procs == {1, 2}

\* The orchestration platform calls the deployer from one thread.
SerialProcs == {1}

Workloads ==
    { [name |-> <<"a">>, version |-> <<"1">>],
      [name |-> <<"b">>, version |-> <<"1", ".", "0">>] }

WorkloadA == [name |-> <<"a">>, version |-> <<"1">>]

WorkloadB == [name |-> <<"b">>, version |-> <<"1", ".", "0">>]

RuntimeEnvs ==
    { EmptyDict,
      [MY_VAR |-> "x"],
      [MY_VAR |-> "x", FATMAN_NAME |-> "x", AUTH_TOKEN |-> "x"],
      [OPENTELEMETRY_ENDPOINT |-> "x"],
      [FATMAN_USER_MODULE_HOSTNAME |-> "x"] }

\* What a host holds after deploy_fatman of an earlier run of Lifecycle
\* (call number 0) launched the workload with containers_num containers and
\* allocated port 7000 to it.
Deployed(manifest, containers_num) ==
    { Container(get_container_name(fatman_resource_name(manifest.name, manifest.version), i),
                "running", PortsMapping(i, PortRangeStart), 0) :
        i \in 0..(containers_num - 1) }

\* The container of index 1 of a workload, stopped, on a host that no longer
\* holds the container of index 0.
LeftSecondary(manifest) ==
    { Container(get_container_name(fatman_resource_name(manifest.name, manifest.version), 1),
                "exited", 0, 0) }

\* The deployer as constructed, the Lifecycle it runs in and the docker host
\* it finds: a fresh host; a host with a workload of two containers, with
\* telemetry enabled and plugins contributing variables; a deployer whose
\* infrastructure config has no hostname, on a host with a workload and with
\* what is left of another one whose primary container was removed by hand.
Setups ==
    { [hostname |-> <<"h", "1">>, telemetry |-> FALSE, plugin_vars_list |-> <<>>,
       network |-> FALSE, containers |-> {}],
      [hostname |-> <<"h", "1">>, telemetry |-> TRUE,
       plugin_vars_list |-> <<EmptyDict,
                              [PLUGIN_VAR |-> "p", PUB_URL |-> "plugin_pub_url"],
                              [PLUGIN_VAR |-> "q", MY_VAR |-> "plugin_my_var"]>>,
       network |-> TRUE, containers |-> Deployed(WorkloadA, 2)],
      [hostname |-> <<>>, telemetry |-> FALSE, plugin_vars_list |-> <<>>,
       network |-> TRUE,
       containers |-> Deployed(WorkloadA, 1) \cup LeftSecondary(WorkloadB)] }


\* Outcomes of `docker network create racetrack_default` on a host where the
\* network does not exist yet: created (0), refused by the daemon (exit code
\* 1, as for every error the daemon answers with), or not run by the docker
\* client at all (exit code 125).
NetworkCreateOutcomes ==
    { [returncode |-> 0, reason |-> "created"],
      [returncode |-> 1, reason |-> "no_address_pool"],
      [returncode |-> 125, reason |-> "client_error"] }

NetworkExistsOutcome == [returncode |-> 1, reason |-> "already_exists"]

(* ------------------------------------------------------------------ state *)

VARIABLES
    containers,   \* the containers of the docker host
    network,      \* whether the network racetrack_default exists on the host
    hostname,     \* infra_config.hostname
    config,       \* the Config of Lifecycle: open_telemetry_enabled
    plugin_engine, \* what the hook fatman_runtime_env_vars of the plugins returns
    clock,        \* now(): time passes between two calls
    calls,        \* number of calls made so far; a call's number is its id
    prev,         \* the call that returned last: what it was, whether it
                  \* succeeded, how many containers it removed
    pc,           \* per caller: the step its call is at
    args,         \* per caller: the arguments of its call
    locals,       \* per caller: the local variables of deploy_fatman / delete_fatman
    cmds,         \* per caller: the remote commands its call has issued, in order
    result,       \* per caller: what its call returned or raised
    host_before   \* per caller: the containers of the host when its call began

vars == <<containers, network, hostname, config, plugin_engine, clock, calls, prev, pc, args, locals, cmds, result, host_before>>

NoManifest == [name |-> <<>>, version |-> <<>>]

NoArgs ==
    [op |-> "none", manifest |-> NoManifest, containers_num |-> 0,
     runtime_env_vars |-> EmptyDict, id |-> 0]

NoLocals ==
    [fatman_port |-> 0, deployment_timestamp |-> 0, internal_name |-> <<>>,
     common_env_vars |-> EmptyDict, env |-> EmptyDict, container_index |-> 0,
     hook_invocations |-> 0, raced_with |-> {}]

\* a FatmanDto whose update_time is read from the clock again
FatmanDtoRestamped(manifest, timestamp, internal_name) ==
    [name |-> manifest.name, version |-> manifest.version, status |-> "running",
     create_time |-> timestamp, update_time |-> timestamp + 1,
     internal_name |-> internal_name, image_tag |-> "tag",
     infrastructure_target |-> "infrastructure_target"]

\* FatmanDto
FatmanDto(manifest, timestamp, internal_name) ==
    [name |-> manifest.name, version |-> manifest.version, status |-> "running",
     create_time |-> timestamp, update_time |-> timestamp,
     internal_name |-> internal_name, image_tag |-> "tag",
     infrastructure_target |-> "infrastructure_target"]

NoDto ==
    [name |-> <<>>, version |-> <<>>, status |-> "", create_time |-> 0,
     update_time |-> 0, internal_name |-> <<>>, image_tag |-> "",
     infrastructure_target |-> ""]

NoResult ==
    [status |-> "none", etype |-> "", conflicts |-> {}, returncode |-> 0,
     reason |-> "", exists |-> FALSE, dto |-> NoDto]

Returned == [NoResult EXCEPT !.status = "ok"]

Raised(etype, reason) == [NoResult EXCEPT !.status = "error", !.etype = etype, !.reason = reason]

\* CommandError of racetrack_client.utils.shell: carries the exit code
CommandError(returncode, reason) ==
    [Raised("CommandError", reason) EXCEPT !.returncode = returncode]

NoPrev ==
    [op |-> "none", manifest |-> NoManifest, containers_num |-> 0, ok |-> FALSE,
     removed |-> 0, id |-> 0]

\* One remote command, as handed to shell() / shell_output(), with the exit
\* code it ended with.
Cmd(kind, name, port, env, index, returncode, reason) ==
    [cmd |-> kind, name |-> name, port |-> port, env |-> env, index |-> index,
     returncode |-> returncode, reason |-> reason]

ResourceName(p) == fatman_resource_name(args[p].manifest.name, args[p].manifest.version)

Quiescent == \A q \in Procs : pc[q] = "idle"

Init ==
    /\ \E s \in Setups :
        /\ containers = s.containers
        /\ network = s.network
        /\ hostname = s.hostname
        /\ config = [open_telemetry_enabled |-> s.telemetry]
        /\ plugin_engine = s.plugin_vars_list
    /\ clock = 1
    /\ calls = 0
    /\ prev = NoPrev
    /\ pc = [p \in Procs |-> "idle"]
    /\ args = [p \in Procs |-> NoArgs]
    /\ locals = [p \in Procs |-> NoLocals]
    /\ cmds = [p \in Procs |-> <<>>]
    /\ result = [p \in Procs |-> NoResult]
    /\ host_before = [p \in Procs |-> {}]

(* ---------------------------------------------------------------- actions *)

Begin(p, a, first) ==
    /\ pc[p] = "idle"
    /\ calls < MaxCalls
    /\ calls' = calls + 1
    /\ args' = [args EXCEPT ![p] = [a EXCEPT !.id = calls + 1]]
    /\ pc' = [pc EXCEPT ![p] = first]
    /\ locals' = [locals EXCEPT ![p] = NoLocals]
    /\ cmds' = [cmds EXCEPT ![p] = <<>>]
    /\ result' = [result EXCEPT ![p] = NoResult]
    /\ clock' = clock + 1
    /\ host_before' = [host_before EXCEPT ![p] = containers]
    /\ UNCHANGED <<containers, network, hostname, config, plugin_engine, prev>>

\* deploy_fatman is called
BeginDeploy(p, manifest, containers_num, runtime_env_vars) ==
    Begin(p, [NoArgs EXCEPT !.op = "deploy", !.manifest = manifest,
                            !.containers_num = containers_num,
                            !.runtime_env_vars = runtime_env_vars],
          "exists")

\* delete_fatman is called
BeginDelete(p, manifest) ==
    Begin(p, [NoArgs EXCEPT !.op = "delete", !.manifest = manifest], "del_check")

\* fatman_exists is called
BeginExists(p, manifest) ==
    Begin(p, [NoArgs EXCEPT !.op = "exists", !.manifest = manifest], "exists")

\* save_fatman_secrets / get_fatman_secrets is called
BeginSecrets(p, op, manifest) ==
    Begin(p, [NoArgs EXCEPT !.op = op, !.manifest = manifest], "secrets")

\* a get_fatman_secrets that returns no secrets instead of raising
SecretsOutcomeGetReturns(op) ==
    IF op = "get_secrets" THEN Returned
    ELSE Raised("NotImplementedError",
                "managing secrets is not supported on local docker")

\* The body of save_fatman_secrets and of get_fatman_secrets: one raise
SecretsOutcome(op) ==
    Raised("NotImplementedError",
           "managing secrets is not supported on local docker")

\* save_fatman_secrets, get_fatman_secrets: raise NotImplementedError
Secrets(p) ==
    /\ pc[p] = "secrets"
    /\ pc' = [pc EXCEPT ![p] = "done"]
    /\ result' = [result EXCEPT ![p] = SecretsOutcome(args[p].op)]
    /\ UNCHANGED <<containers, network, hostname, config, plugin_engine, clock, calls, prev, args, locals, cmds, host_before>>

\* fatman_exists: the docker ps -a query for the container of index 0; in
\* deploy_fatman it decides whether delete_fatman runs
FatmanExists(p) ==
    /\ pc[p] = "exists"
    /\ LET name == get_container_name(ResourceName(p), 0)
           found == ContainerExists(containers, name)
       IN  /\ cmds' = [cmds EXCEPT ![p] =
                        Append(@, Cmd("ps_a", name, 0, EmptyDict, 0, 0, ""))]
           /\ IF args[p].op = "exists"
              THEN /\ pc' = [pc EXCEPT ![p] = "done"]
                   /\ result' = [result EXCEPT ![p] = [Returned EXCEPT !.exists = found]]
              ELSE /\ pc' = [pc EXCEPT ![p] = IF found THEN "del_check" ELSE "ports"]
                   /\ UNCHANGED result
    /\ UNCHANGED <<containers, network, hostname, config, plugin_engine, clock, calls, prev, args, locals, host_before>>

\* a delete_fatman that handles the slot of index 0 alone
AfterSlotFirstOnly(p, i) ==
    IF args[p].op = "deploy" THEN "ports" ELSE "done"

\* Where a call goes on once delete_fatman has handled the slot of index i
AfterSlot(p, i) ==
    IF i + 1 < DeleteSlots THEN "del_check"
    ELSE IF args[p].op = "deploy" THEN "ports" ELSE "done"

\* _delete_container_if_exists: the docker ps -a query of one slot
DeleteCheck(p) ==
    /\ pc[p] = "del_check"
    /\ LET i == locals[p].container_index
           name == get_container_name(ResourceName(p), i)
           next == AfterSlot(p, i)
       IN  /\ cmds' = [cmds EXCEPT ![p] =
                        Append(@, Cmd("ps_a", name, 0, EmptyDict, i, 0, ""))]
           /\ IF ContainerExists(containers, name)
              THEN /\ pc' = [pc EXCEPT ![p] = "del_rm"]
                   /\ UNCHANGED <<locals, result>>
              ELSE /\ pc' = [pc EXCEPT ![p] = next]
                   /\ locals' = [locals EXCEPT ![p].container_index =
                                    IF next = "del_check" THEN i + 1 ELSE 0]
                   /\ result' = [result EXCEPT ![p] =
                                    IF next = "done" THEN Returned ELSE @]
    /\ UNCHANGED <<containers, network, hostname, config, plugin_engine, clock, calls, prev, args, host_before>>

\* a removal that takes every container whose name begins with the name given
DockerRmByPrefix(cs, name) == { c \in cs : ~StartsWith(c.name, name) }

\* The host after docker rm -f <container_name>: without the container of that name
DockerRm(cs, name) == { c \in cs : c.name # name }

\* _delete_container_if_exists: docker rm -f of one slot
DeleteRemove(p) ==
    /\ pc[p] = "del_rm"
    /\ LET i == locals[p].container_index
           name == get_container_name(ResourceName(p), i)
           next == AfterSlot(p, i)
           present == \E c \in containers : c.name = name
       IN  /\ cmds' = [cmds EXCEPT ![p] =
                        Append(@, Cmd("rm", name, 0, EmptyDict, i,
                                      IF present THEN 0 ELSE 1,
                                      IF present THEN "" ELSE "no_such_container"))]
           /\ containers' = DockerRm(containers, name)
           /\ IF present
              THEN /\ pc' = [pc EXCEPT ![p] = next]
                   /\ locals' = [locals EXCEPT ![p].container_index =
                                    IF next = "del_check" THEN i + 1 ELSE 0]
                   /\ result' = [result EXCEPT ![p] =
                                    IF next = "done" THEN Returned ELSE @]
              ELSE /\ pc' = [pc EXCEPT ![p] = "done"]
                   /\ result' = [result EXCEPT ![p] = CommandError(1, "no_such_container")]
                   /\ UNCHANGED locals
    /\ UNCHANGED <<network, hostname, config, plugin_engine, clock, calls, prev, args, host_before>>

\* The deploy calls of the other threads that, at this moment, have read the
\* port listing and have not yet issued the docker run of their container 0
\* (kept with the call that reads its listing now, by call number).
ListedNotLaunched(p) ==
    { args[q].id : q \in { r \in Procs \ {p} :
                            /\ args[r].op = "deploy"
                            /\ pc[r] \in {"prepare", "network", "run"}
                            /\ \A i \in DOMAIN cmds[r] : cmds[r][i].cmd # "run" } }

\* fatman_port = self._get_next_fatman_port(): the docker ps listing and the scan
AllocatePort(p) ==
    /\ pc[p] = "ports"
    /\ cmds' = [cmds EXCEPT ![p] =
                    Append(@, Cmd("ps", FATMAN_PREFIX, 0, EmptyDict, 0, 0, ""))]
    /\ locals' = [locals EXCEPT ![p].fatman_port = get_next_fatman_port(containers),
                                ![p].raced_with = ListedNotLaunched(p)]
    /\ pc' = [pc EXCEPT ![p] = "prepare"]
    /\ UNCHANGED <<containers, network, hostname, config, plugin_engine, clock, calls, prev, args, result, host_before>>

\* deploy_fatman from the timestamp to env_vars_cmd: the assertion on the
\* hostname, the reserved variables, the conflict check and the merges.
\* No remote command is issued here.
Prepare(p) ==
    /\ pc[p] = "prepare"
    /\ LET a == args[p]
           common == common_env_vars(a.manifest, config.open_telemetry_enabled,
                                     a.containers_num, clock, ResourceName(p))
           conflicts == Conflicts(common, a.runtime_env_vars)
           internal_name == hostname \o <<":">> \o IntToStr(locals[p].fatman_port)
       IN  IF hostname = <<>>
           THEN /\ pc' = [pc EXCEPT ![p] = "done"]
                /\ result' = [result EXCEPT ![p] =
                                Raised("AssertionError",
                                       "hostname of a docker daemon must be set")]
                /\ locals' = [locals EXCEPT ![p].deployment_timestamp = clock]
           ELSE IF conflicts # {}
           THEN /\ pc' = [pc EXCEPT ![p] = "done"]
                /\ result' = [result EXCEPT ![p] =
                                [Raised("RuntimeError",
                                        "found illegal runtime env vars, which conflict with reserved names")
                                 EXCEPT !.conflicts = conflicts]]
                /\ locals' = [locals EXCEPT ![p].deployment_timestamp = clock,
                                            ![p].internal_name = internal_name,
                                            ![p].common_env_vars = common]
           ELSE /\ pc' = [pc EXCEPT ![p] = "network"]
                /\ locals' = [locals EXCEPT
                                ![p].deployment_timestamp = clock,
                                ![p].internal_name = internal_name,
                                ![p].common_env_vars = common,
                                ![p].hook_invocations = @ + 1,
                                ![p].env = MergePluginVars(
                                            merge_env_vars(a.runtime_env_vars, common),
                                            plugin_engine)]
                /\ UNCHANGED result
    /\ UNCHANGED <<containers, network, hostname, config, plugin_engine, clock, calls, prev, args, cmds, host_before>>

\* docker network create racetrack_default, and the except clause around it
NetworkCreate(p) ==
    /\ pc[p] = "network"
    /\ \E o \in IF network THEN {NetworkExistsOutcome} ELSE NetworkCreateOutcomes :
        /\ cmds' = [cmds EXCEPT ![p] =
                        Append(@, Cmd("network_create", <<>>, 0, EmptyDict, 0,
                                      o.returncode, o.reason))]
        /\ network' = (network \/ o.returncode = 0)
        /\ IF o.returncode = 0 \/ NetworkErrorSwallowed(o.returncode)
           THEN /\ pc' = [pc EXCEPT ![p] = "run"]
                /\ UNCHANGED result
           ELSE /\ pc' = [pc EXCEPT ![p] = "done"]
                /\ result' = [result EXCEPT ![p] = CommandError(o.returncode, o.reason)]
    /\ UNCHANGED <<containers, hostname, config, plugin_engine, clock, calls, prev, args, locals, host_before>>

\* What the docker host answers to docker run -d --name <name> [-p <port>:7000]
\* --pull always --network="racetrack_default": the image is pulled, then the
\* container is created (its name must be free), then started (the network
\* must exist and the published port must be free).  state is the state the
\* new container is left in, "none" when none was created.
DockerRun(cs, net, name, port, pulled) ==
    IF ~pulled
        THEN [returncode |-> 125, reason |-> "pull_failed", state |-> "none"]
    ELSE IF \E c \in cs : c.name = name
        THEN [returncode |-> 125, reason |-> "name_in_use", state |-> "none"]
    ELSE IF ~net
        THEN [returncode |-> 125, reason |-> "network_not_found", state |-> "created"]
    ELSE IF port # 0 /\ \E c \in cs : c.state = "running" /\ c.port = port
        THEN [returncode |-> 125, reason |-> "port_is_allocated", state |-> "created"]
    ELSE [returncode |-> 0, reason |-> "started", state |-> "running"]

\* The host after one docker run of the loop, as a failed deploy leaves it:
\* deploy_fatman has no except clause and no cleanup around shell(...), so a
\* failing command leaves the host as docker left it.
HostAfterRunRollback(cs, o, name, port, id) ==
    IF o.returncode # 0 THEN { c \in cs : c.launch # id }
    ELSE cs \cup {Container(name, o.state, port, id)}

HostAfterRun(cs, o, name, port, id) ==
    IF o.state = "none" THEN cs
    ELSE cs \cup {Container(name, o.state, port, id)}

\* One turn of the loop `for container_index in range(containers_num)`: the
\* docker run command; after the last one the FatmanDto is returned.
RunContainer(p) ==
    /\ pc[p] = "run"
    /\ \E pulled \in BOOLEAN :
        LET i == locals[p].container_index
            name == get_container_name(ResourceName(p), i)
            port == PortsMapping(i, locals[p].fatman_port)
            o == DockerRun(containers, network, name, port, pulled)
        IN  /\ cmds' = [cmds EXCEPT ![p] =
                            Append(@, Cmd("run", name, port, locals[p].env, i,
                                          o.returncode, o.reason))]
            /\ containers' = HostAfterRun(containers, o, name, port, args[p].id)
            /\ IF o.returncode # 0
               THEN /\ pc' = [pc EXCEPT ![p] = "done"]
                    /\ result' = [result EXCEPT ![p] = CommandError(o.returncode, o.reason)]
                    /\ UNCHANGED locals
               ELSE IF i + 1 < args[p].containers_num
               THEN /\ locals' = [locals EXCEPT ![p].container_index = i + 1]
                    /\ UNCHANGED <<pc, result>>
               ELSE /\ pc' = [pc EXCEPT ![p] = "done"]
                    /\ result' = [result EXCEPT ![p] =
                                    [Returned EXCEPT !.dto =
                                        FatmanDto(args[p].manifest,
                                                  locals[p].deployment_timestamp,
                                                  locals[p].internal_name)]]
                    /\ UNCHANGED locals
    /\ UNCHANGED <<network, hostname, config, plugin_engine, clock, calls, prev, args, host_before>>

\* The call has returned or raised: the caller has its outcome.
Return(p) ==
    /\ pc[p] = "done"
    /\ prev' = [op |-> args[p].op, manifest |-> args[p].manifest,
                containers_num |-> args[p].containers_num,
                ok |-> result[p].status = "ok",
                removed |-> Cardinality({ i \in DOMAIN cmds[p] : cmds[p][i].cmd = "rm" }),
                id |-> args[p].id]
    /\ pc' = [pc EXCEPT ![p] = "idle"]
    /\ args' = [args EXCEPT ![p] = NoArgs]
    /\ locals' = [locals EXCEPT ![p] = NoLocals]
    /\ cmds' = [cmds EXCEPT ![p] = <<>>]
    /\ result' = [result EXCEPT ![p] = NoResult]
    /\ host_before' = [host_before EXCEPT ![p] = {}]
    /\ UNCHANGED <<containers, network, hostname, config, plugin_engine, clock, calls>>

\* A running container stops by itself (its process ends); it stays on the
\* host, stopped.  Taken before the first call: the calls find the host with
\* some of its containers stopped.
ContainerExits ==
    /\ Quiescent
    /\ calls = 0
    /\ Cardinality({ c \in containers : c.state = "exited" }) < MaxExited
    /\ \E c \in containers :
        /\ c.state = "running"
        /\ containers' = (containers \ {c}) \cup {[c EXCEPT !.state = "exited"]}
    /\ UNCHANGED <<network, hostname, config, plugin_engine, clock, calls, prev, pc, args, locals, cmds, result, host_before>>

\* The calls are made one after the other: a call begins when no call runs.
Next ==
    \/ \E p \in SerialProcs, m \in Workloads, n \in 1..MaxContainers, rt \in RuntimeEnvs :
            Quiescent /\ BeginDeploy(p, m, n, rt)
    \/ \E p \in SerialProcs, m \in Workloads : Quiescent /\ BeginDelete(p, m)
    \/ \E p \in SerialProcs, m \in Workloads : Quiescent /\ BeginExists(p, m)
    \/ \E p \in SerialProcs, m \in Workloads, op \in {"save_secrets", "get_secrets"} :
            Quiescent /\ BeginSecrets(p, op, m)
    \/ \E p \in SerialProcs : Secrets(p)
    \/ \E p \in SerialProcs : FatmanExists(p)
    \/ \E p \in SerialProcs : DeleteCheck(p)
    \/ \E p \in SerialProcs : DeleteRemove(p)
    \/ \E p \in SerialProcs : AllocatePort(p)
    \/ \E p \in SerialProcs : Prepare(p)
    \/ \E p \in SerialProcs : NetworkCreate(p)
    \/ \E p \in SerialProcs : RunContainer(p)
    \/ \E p \in SerialProcs : Return(p)
    \/ ContainerExits

Spec == Init /\ [][Next]_vars

\* The runtime_env_vars of the concurrent deploys: none (the variables play
\* no part in the port allocation).
ConcurrentRuntimeEnvs == { EmptyDict }

\* deploy_fatman called from two threads at once, one call per thread:
\* nothing in the deployer serialises the calls, so the steps of the two
\* deploys interleave freely, one remote command at a time.  A call that has
\* ended keeps its outcome.
NextConcurrent ==
    \/ \E p \in Procs, m \in Workloads, n \in 1..MaxContainers, rt \in ConcurrentRuntimeEnvs :
            BeginDeploy(p, m, n, rt)
    \/ \E p \in Procs : FatmanExists(p)
    \/ \E p \in Procs : DeleteCheck(p)
    \/ \E p \in Procs : DeleteRemove(p)
    \/ \E p \in Procs : AllocatePort(p)
    \/ \E p \in Procs : Prepare(p)
    \/ \E p \in Procs : NetworkCreate(p)
    \/ \E p \in Procs : RunContainer(p)

SpecConcurrent == Init /\ [][NextConcurrent]_vars

(* ----------------------------------------------------------------- claims *)

\* The commands of kind `kind` among those the call of p has issued, in order
CmdsOfKind(p, kind) == SelectSeq(cmds[p], LAMBDA c : c.cmd = kind)

IsDeploy(p) == args[p].op = "deploy"

DeployDone(p) == IsDeploy(p) /\ pc[p] = "done"

\* The call of p has got past the local computation that follows the port allocation.
PastPrepare(p) == IsDeploy(p) /\ pc[p] \in {"network", "run", "done"}
                    /\ locals[p].deployment_timestamp # 0

\* The deploy of p was stopped by nothing but the docker host's own state:
\* it returned, or docker run refused a container name that is in use.
NoOutsideFailure(p) ==
    \/ result[p].status = "ok"
    \/ result[p].etype = "CommandError" /\ result[p].reason = "name_in_use"

\* p's deploy follows at once a successful deploy of the same workload with
\* the same containers_num
Redeploy(p) ==
    /\ DeployDone(p)
    /\ prev.op = "deploy" /\ prev.ok
    /\ prev.manifest = args[p].manifest
    /\ prev.containers_num = args[p].containers_num

\* C1: when deploy is called twice in succession for the same workload with
\* the same containers_num, then after the second call exactly one container
\* named container_name(base, 0) exists, it was launched by the second call,
\* and no container launched by the first call is left on the host.
C1_RedeployLeavesOnlyTheSecond ==
    \A p \in Procs :
        (Redeploy(p) /\ NoOutsideFailure(p)) =>
            LET base == get_container_name(ResourceName(p), 0)
            IN  /\ Cardinality({ c \in containers : c.name = base }) = 1
                /\ \A c \in containers : c.name = base => c.launch = args[p].id
                /\ \A c \in containers : c.launch # prev.id

\* C2: with an empty hostname deploy fails with the precondition error before
\* any remote command is issued, and the host is as it was.
C2_NoHostnameNoRemoteCommand ==
    \A p \in Procs :
        (DeployDone(p) /\ hostname = <<>>) =>
            /\ result[p].etype = "AssertionError"
            /\ cmds[p] = <<>>
            /\ containers = host_before[p]

\* The reserved keys as the claim counts them
ReservedKeys(p) ==
    {"PUB_URL", "FATMAN_NAME", "AUTH_TOKEN", "FATMAN_DEPLOYMENT_TIMESTAMP",
     "REQUEST_TRACING_HEADER"}
    \cup (IF config.open_telemetry_enabled THEN {"OPENTELEMETRY_ENDPOINT"} ELSE {})
    \cup (IF args[p].containers_num > 1 THEN {"FATMAN_USER_MODULE_HOSTNAME"} ELSE {})

SharedKeys(p) == ReservedKeys(p) \cap DOMAIN args[p].runtime_env_vars

\* The call of p has built its reserved variables (the hostname is set).
ReservedBuilt(p) == PastPrepare(p) /\ result[p].etype # "AssertionError"

\* C3: a deploy whose runtime_env_vars shares a key with the reserved set of
\* this deploy (the telemetry key counted only with telemetry enabled, the
\* user-module-hostname key only with containers_num > 1) fails with the
\* conflict error, which names every shared key, and issues neither the
\* network-create command nor a run command.  (Of a deployer whose hostname
\* is set: without one the assertion on the hostname fails first.)
C3_ConflictNamesEveryKey ==
    \A p \in Procs :
        ReservedBuilt(p) =>
            /\ SharedKeys(p) # {} =>
                    /\ pc[p] = "done"
                    /\ result[p].etype = "RuntimeError"
                    /\ result[p].conflicts = SharedKeys(p)
            /\ result[p].etype = "RuntimeError" =>
                    /\ SharedKeys(p) # {}
                    /\ CmdsOfKind(p, "network_create") = <<>>
                    /\ CmdsOfKind(p, "run") = <<>>

\* C3 witness: a deploy has failed with a conflict error naming two keys.
C3_Witness ==
    \E p \in Procs :
        /\ DeployDone(p)
        /\ result[p].etype = "RuntimeError"
        /\ Cardinality(result[p].conflicts) >= 2

\* C4: when deploy fails with the conflict error, the containers of the host
\* are those it held when the call began.
C4_ConflictLeavesHostUnchanged ==
    \A p \in Procs :
        (DeployDone(p) /\ result[p].etype = "RuntimeError") =>
            containers = host_before[p]

\* The host ports published by the running containers named fatman-...
PublishedPorts(cs) ==
    { c.port : c \in { x \in cs : /\ x.state = "running"
                                  /\ x.port # 0
                                  /\ StartsWith(x.name, FATMAN_PREFIX) } }

SmallestFree(occupied) ==
    IF \A k \in 0..99 : (7000 + 10 * k) \in occupied THEN 8000
    ELSE 7000 + 10 * (CHOOSE k \in 0..99 :
                        /\ (7000 + 10 * k) \notin occupied
                        /\ \A j \in 0..(k - 1) : (7000 + 10 * j) \in occupied)

\* C5: the port a deploy allocates is the smallest of 7000, 7010, ..., 7990
\* that no running container named fatman-... publishes (8000 when there is
\* none).  Stated of the step that follows the listing: the calls are
\* serialized, so the host is as the listing found it.
C5_AllocatesSmallestFreePort ==
    \A p \in Procs :
        (IsDeploy(p) /\ pc[p] = "prepare") =>
            locals[p].fatman_port = SmallestFree(PublishedPorts(containers))

RunningPrimaries ==
    { c \in containers : /\ c.state = "running"
                         /\ c.port # 0
                         /\ StartsWith(c.name, FATMAN_PREFIX) }

C7_OneRunCommandPerIndex ==
    \A p \in Procs :
        IsDeploy(p) =>
            LET runs == CmdsOfKind(p, "run")
                base == ResourceName(p)
            IN  /\ Len(runs) <= args[p].containers_num
                /\ \A i \in DOMAIN runs :
                    /\ runs[i].index = i - 1
                    /\ runs[i].name = IF i = 1 THEN base
                                      ELSE base \o <<"-">> \o IntToStr(i - 1)
                    /\ runs[i].port = IF i = 1 THEN locals[p].fatman_port ELSE 0
                /\ (pc[p] = "done" /\ result[p].status = "ok") =>
                    /\ Len(runs) = args[p].containers_num
                    /\ runs[1].port \in PortCandidates \cup {8000}

\* C7 witness: a deploy of three containers has returned.
C7_Witness ==
    \E p \in Procs :
        /\ DeployDone(p)
        /\ result[p].status = "ok"
        /\ args[p].containers_num = 3
        /\ Len(CmdsOfKind(p, "run")) = 3

\* Some mapping the plugins contribute holds the key.
PluginSets(key) == \E i \in DOMAIN plugin_engine : key \in DOMAIN plugin_engine[i]

C9_OnlyAlreadyExistsSwallowed ==
    \A p \in Procs :
        \A i \in DOMAIN cmds[p] :
            (/\ cmds[p][i].cmd = "network_create"
             /\ cmds[p][i].returncode # 0
             /\ cmds[p][i].reason # "already_exists") =>
                /\ pc[p] = "done"
                /\ result[p].etype = "CommandError"
                /\ CmdsOfKind(p, "run") = <<>>

\* The two names delete is to consider
TwoSlots(p) == { ResourceName(p), ResourceName(p) \o <<"-", "1">> }

\* C10: delete queries and removes nothing but the containers named base and
\* base-1; it removes each that is present when the call begins and no other,
\* and returns without error, leaving the host without them; a delete that
\* follows a delete of the same workload removes nothing and leaves the host
\* as it found it.
C10_DeleteTwoSlots ==
    \A p \in Procs :
        args[p].op = "delete" =>
            /\ \A i \in DOMAIN cmds[p] :
                /\ cmds[p][i].cmd \in {"ps_a", "rm"}
                /\ cmds[p][i].name \in TwoSlots(p)
                /\ cmds[p][i].returncode = 0
                /\ cmds[p][i].cmd = "rm" =>
                        \E c \in host_before[p] : c.name = cmds[p][i].name
            /\ pc[p] = "done" =>
                /\ result[p].status = "ok"
                /\ containers = { c \in host_before[p] : c.name \notin TwoSlots(p) }
                /\ (/\ prev.op = "delete"
                    /\ prev.ok
                    /\ prev.manifest = args[p].manifest) =>
                        /\ containers = host_before[p]
                        /\ CmdsOfKind(p, "rm") = <<>>

\* C10 witness: a delete has returned that follows a delete of the same
\* workload which removed two containers.
C10_Witness ==
    \E p \in Procs :
        /\ args[p].op = "delete"
        /\ pc[p] = "done"
        /\ prev.op = "delete"
        /\ prev.ok
        /\ prev.manifest = args[p].manifest
        /\ prev.removed = 2

\* C11: when the docker run of container index k fails during a deploy, the
\* error ends the call as a CommandError carrying docker's exit code and no
\* FatmanDto is returned; the containers this call started for the indices
\* 0..k-1 are still running on the host, nothing of an index above k was
\* launched, and no command is repeated: each index has at most one docker
\* run and the call has at most one docker network create.
C11_RunFailureStopsTheDeploy ==
    \A p \in Procs :
        IsDeploy(p) =>
            LET runs == CmdsOfKind(p, "run")
                base == ResourceName(p)
            IN  /\ Len(CmdsOfKind(p, "network_create")) <= 1
                /\ \A i, j \in DOMAIN runs : runs[i].index = runs[j].index => i = j
                /\ \A i \in DOMAIN runs :
                    runs[i].returncode # 0 =>
                        /\ i = Len(runs)
                        /\ cmds[p][Len(cmds[p])].cmd = "run"
                        /\ pc[p] = "done"
                        /\ result[p].status = "error"
                        /\ result[p].etype = "CommandError"
                        /\ result[p].returncode = runs[i].returncode
                        /\ result[p].reason = runs[i].reason
                        /\ result[p].dto = NoDto
                        /\ \A k \in 0..(runs[i].index - 1) :
                            \E c \in containers :
                                /\ c.name = get_container_name(base, k)
                                /\ c.state = "running"
                                /\ c.launch = args[p].id
                        /\ \A c \in containers :
                            c.launch = args[p].id =>
                                \E k \in 0..runs[i].index :
                                    c.name = get_container_name(base, k)

\* A deploy of three containers whose third docker run failed, with the
\* first two containers on the host.
C11_Witness ==
    \E p \in Procs :
        /\ DeployDone(p)
        /\ result[p].etype = "CommandError"
        /\ LET runs == CmdsOfKind(p, "run")
           IN  /\ Len(runs) = 3
               /\ runs[3].returncode # 0
               /\ runs[1].returncode = 0
               /\ runs[2].returncode = 0
        /\ \E c \in containers :
            c.name = get_container_name(ResourceName(p), 1) /\ c.launch = args[p].id

\* C12: a deploy that succeeds returns a FatmanDto with status "running",
\* with create_time and update_time both equal to the deployment timestamp
\* that every container of the call received as FATMAN_DEPLOYMENT_TIMESTAMP,
\* and with internal_name "<hostname>:<port>" where <port> is the decimal
\* text of the external port the call published on its container of index 0.
C12_DescriptorOfASuccessfulDeploy ==
    \A p \in Procs :
        (DeployDone(p) /\ result[p].status = "ok") =>
            LET dto == result[p].dto
                runs == CmdsOfKind(p, "run")
                iname == dto.internal_name
                h == Len(hostname)
            IN  /\ dto.name = args[p].manifest.name
                /\ dto.version = args[p].manifest.version
                /\ dto.status = "running"
                /\ dto.create_time = dto.update_time
                /\ dto.create_time =
                        locals[p].common_env_vars["FATMAN_DEPLOYMENT_TIMESTAMP"]
                /\ \A i \in DOMAIN runs :
                        runs[i].env["FATMAN_DEPLOYMENT_TIMESTAMP"] = dto.create_time
                /\ h > 0
                /\ Len(iname) > h + 1
                /\ SubSeq(iname, 1, h) = hostname
                /\ iname[h + 1] = ":"
                /\ \A j \in (h + 2)..Len(iname) : IsDigit(iname[j])
                /\ runs # <<>>
                /\ runs[1].index = 0
                /\ runs[1].port # 0
                /\ StrToInt(SubSeq(iname, h + 2, Len(iname))) = runs[1].port
                /\ \E c \in containers :
                        /\ c.name = ResourceName(p)
                        /\ c.launch = args[p].id
                        /\ c.port = runs[1].port

\* A successful deploy of two containers whose FatmanDto carries the
\* timestamp of the call and a host:port name.
C12_Witness ==
    \E p \in Procs :
        /\ DeployDone(p)
        /\ result[p].status = "ok"
        /\ args[p].containers_num = 2
        /\ result[p].dto.create_time = locals[p].deployment_timestamp
        /\ result[p].dto.create_time > 0
        /\ result[p].dto.internal_name = hostname \o <<":", "7", "0", "0", "0">>

\* The place in the list the plugin hook returned of the last mapping that
\* holds key; 0 when no mapping holds it.
LastPluginWith(key) ==
    LET hits == { i \in DOMAIN plugin_engine : key \in DOMAIN plugin_engine[i] }
    IN  IF hits = {} THEN 0 ELSE CHOOSE i \in hits : \A j \in hits : j <= i

\* The variables a deploy with no conflict hands to its containers: per key
\* the value of the last plugin mapping holding it, else the reserved value,
\* else the runtime value.
ExpectedEnv(p) ==
    LET runtime == args[p].runtime_env_vars
        common == locals[p].common_env_vars
        keys == (DOMAIN runtime) \cup (DOMAIN common)
                    \cup UNION { DOMAIN plugin_engine[i] : i \in DOMAIN plugin_engine }
    IN  [k \in keys |->
            IF LastPluginWith(k) # 0 THEN plugin_engine[LastPluginWith(k)][k]
            ELSE IF k \in DOMAIN common THEN common[k]
            ELSE runtime[k]]

\* C13: a deploy whose runtime_env_vars shares no key with the reserved set
\* invokes the plugin hook exactly once; its final variables are the runtime
\* and reserved ones overridden by the plugin mappings in the order the hook
\* returned them (the last mapping holding a key wins, also over a reserved
\* or a runtime key, and no error is raised for it; an empty mapping changes
\* nothing); every docker run of the call carries those same variables.
C13_PluginsOverrideInOrder ==
    \A p \in Procs :
        /\ locals[p].hook_invocations <= 1
        /\ (ReservedBuilt(p) /\ SharedKeys(p) = {}) =>
            /\ locals[p].hook_invocations = 1
            /\ result[p].etype # "RuntimeError"
            /\ locals[p].env = ExpectedEnv(p)
            /\ \A i \in DOMAIN cmds[p] :
                cmds[p][i].cmd = "run" => cmds[p][i].env = locals[p].env
            /\ (\A i \in DOMAIN plugin_engine : plugin_engine[i] = EmptyDict) =>
                locals[p].env = merge_env_vars(args[p].runtime_env_vars,
                                               locals[p].common_env_vars)

\* A successful deploy of two containers under three plugin mappings, the
\* first empty, the third overriding a key of the second and a runtime key,
\* the second overriding a reserved key.
C13_Witness ==
    \E p \in Procs :
        /\ DeployDone(p)
        /\ result[p].status = "ok"
        /\ Len(plugin_engine) = 3
        /\ plugin_engine[1] = EmptyDict
        /\ "MY_VAR" \in DOMAIN args[p].runtime_env_vars
        /\ Len(CmdsOfKind(p, "run")) = 2
        /\ \A i \in 1..2 :
            LET env == CmdsOfKind(p, "run")[i].env
            IN  /\ env["PLUGIN_VAR"] = "q"
                /\ env["MY_VAR"] = "plugin_my_var"
                /\ env["PUB_URL"] = "plugin_pub_url"
                /\ env["FATMAN_NAME"] = args[p].manifest.name

\* name is base itself for index 0 and, for an index i >= 1, base followed by
\* "-" and the decimal digits of i.
IsNameOfIndex(name, base, i) ==
    IF i = 0 THEN name = base
    ELSE LET b == Len(base)
             digits == SubSeq(name, b + 2, Len(name))
         IN  /\ Len(name) > b + 1
             /\ SubSeq(name, 1, b) = base
             /\ name[b + 1] = "-"
             /\ \A j \in DOMAIN digits : IsDigit(digits[j])
             /\ digits[1] # "0"
             /\ StrToInt(digits) = i

\* C14: get_container_name(base, 0) is base and get_container_name(base, i)
\* is base, "-" and the decimal text of i for i >= 1, so that two indices of
\* one base have the same name only when they are the same index.  Checked on
\* the name of every docker ps -a, docker rm and docker run command a call
\* issues, and, as a deploy comes to run its containers, on every index up
\* to nine above its containers_num.
C14_ContainerNames ==
    \A p \in Procs :
        LET base == ResourceName(p)
            named == { i \in DOMAIN cmds[p] : cmds[p][i].cmd \in {"ps_a", "rm", "run"} }
        IN  /\ \A i \in named : IsNameOfIndex(cmds[p][i].name, base, cmds[p][i].index)
            /\ \A i, j \in named :
                cmds[p][i].index # cmds[p][j].index => cmds[p][i].name # cmds[p][j].name
            /\ (IsDeploy(p) /\ pc[p] = "run" /\ locals[p].container_index = 0) =>
                LET indexes == 0..(args[p].containers_num + 9)
                    names == [i \in indexes |-> get_container_name(base, i)]
                IN  /\ \A i \in indexes : IsNameOfIndex(names[i], base, i)
                    /\ \A i, j \in indexes : i # j => names[i] # names[j]

\* A deploy that has run its containers of index 0, 1 and 2 under the names
\* base, base-1 and base-2.
C14_Witness ==
    \E p \in Procs :
        /\ IsDeploy(p)
        /\ LET runs == CmdsOfKind(p, "run")
               base == ResourceName(p)
           IN  /\ Len(runs) = 3
               /\ runs[1].name = base
               /\ runs[2].name = base \o <<"-", "1">>
               /\ runs[3].name = base \o <<"-", "2">>

IsSecrets(p) == args[p].op \in {"save_secrets", "get_secrets"}

\* C15: save_fatman_secrets and get_fatman_secrets end, for every workload
\* and on every host, with the NotImplementedError "managing secrets is not
\* supported on local docker"; from call to return they issue no remote
\* command and leave the containers of the host as they found them.
C15_SecretsNotSupported ==
    \A p \in Procs :
        IsSecrets(p) =>
            /\ cmds[p] = <<>>
            /\ containers = host_before[p]
            /\ pc[p] \in {"secrets", "done"}
            /\ pc[p] = "done" =>
                /\ result[p].status = "error"
                /\ result[p].etype = "NotImplementedError"
                /\ result[p].reason = "managing secrets is not supported on local docker"
                /\ result[p].dto = NoDto

\* get_fatman_secrets has failed on a host that holds containers.
C15_Witness ==
    \E p \in Procs :
        /\ args[p].op = "get_secrets"
        /\ pc[p] = "done"
        /\ result[p].etype = "NotImplementedError"
        /\ containers # {}

\* The deploys of p and q, of different workloads, have both read the port
\* listing before either issued the docker run of its container 0, and both
\* were allocated the same port.
Raced(p, q) ==
    /\ p # q
    /\ IsDeploy(p)
    /\ IsDeploy(q)
    /\ args[p].manifest # args[q].manifest
    /\ \/ args[q].id \in locals[p].raced_with
       \/ args[p].id \in locals[q].raced_with
    /\ locals[p].fatman_port = locals[q].fatman_port

\* The docker run commands of p's call for the container of index 0
PrimaryRuns(p) == SelectSeq(cmds[p], LAMBDA c : c.cmd = "run" /\ c.index = 0)

\* C16: when two concurrent deploys of different workloads have both read
\* the port listing before either launched its primary and were allocated
\* the same port, the port allocation of neither fails (the docker ps of
\* both ends with exit code 0 and an error of either call is the failed
\* assertion on the hostname or the error of its last command, a docker
\* network create or a docker run); the two
\* primaries are never both started; and once one primary is started, the
\* docker run of the other primary fails with exit code 125 and ends that
\* deploy with a CommandError and no FatmanDto, the port being reported as
\* allocated whenever docker got as far as binding it.
C16_CollisionSurfacesAtDockerRun ==
    \A p, q \in Procs :
        Raced(p, q) =>
            /\ \A i \in DOMAIN cmds[p] :
                cmds[p][i].cmd = "ps" => cmds[p][i].returncode = 0
            /\ result[p].status = "error" =>
                LET last == cmds[p][Len(cmds[p])]
                IN  \/ result[p].etype = "AssertionError" /\ hostname = <<>>
                    \/ /\ result[p].etype = "CommandError"
                       /\ last.cmd \in {"network_create", "run"}
                       /\ last.returncode = result[p].returncode
            /\ (PrimaryRuns(p) # <<>> /\ PrimaryRuns(q) # <<>>) =>
                ~(PrimaryRuns(p)[1].returncode = 0 /\ PrimaryRuns(q)[1].returncode = 0)
            /\ (PrimaryRuns(p) # <<>> /\ PrimaryRuns(q) # <<>>
                    /\ PrimaryRuns(p)[1].returncode = 0) =>
                LET second == PrimaryRuns(q)[1]
                IN  /\ second.returncode = 125
                    /\ second.port = PrimaryRuns(p)[1].port
                    /\ second.reason \in {"pull_failed", "network_not_found",
                                          "port_is_allocated"}
                    /\ pc[q] = "done"
                    /\ result[q].etype = "CommandError"
                    /\ result[q].returncode = 125
                    /\ result[q].dto = NoDto
            /\ (PrimaryRuns(q) # <<>> /\ PrimaryRuns(q)[1].reason = "port_is_allocated") =>
                \E c \in containers :
                    /\ c.state = "running"
                    /\ c.port = locals[q].fatman_port
                    /\ c.name # ResourceName(q)

\* Two deploys of different workloads that raced for port 7000: the primary
\* of one is running with the port, the docker run of the other primary was
\* refused because the port is allocated.
C16_Witness ==
    \E p, q \in Procs :
        /\ Raced(p, q)
        /\ locals[p].fatman_port = PortRangeStart
        /\ PrimaryRuns(p) # <<>>
        /\ PrimaryRuns(p)[1].returncode = 0
        /\ PrimaryRuns(q) # <<>>
        /\ PrimaryRuns(q)[1].reason = "port_is_allocated"
        /\ result[q].etype = "CommandError"
        /\ \E c \in containers :
            /\ c.name = ResourceName(p)
            /\ c.state = "running"
            /\ c.port = PortRangeStart

\* C17: fatman_exists answers TRUE exactly when the host holds a container
\* whose name is get_container_name(base, 0), whatever its state; a container
\* of index 1, or any other container whose name only contains base, does
\* not make it TRUE.  The query is one docker ps -a and changes nothing.
C17_ExistsIffPrimaryPresent ==
    \A p \in Procs :
        (args[p].op = "exists" /\ pc[p] = "done") =>
            /\ result[p].status = "ok"
            /\ result[p].exists = (\E c \in containers : c.name = ResourceName(p))
            /\ Len(cmds[p]) = 1
            /\ cmds[p][1].cmd = "ps_a"
            /\ cmds[p][1].name = ResourceName(p)
            /\ containers = host_before[p]

\* fatman_exists has answered FALSE on a host that holds the container of
\* index 1 of the workload and not the one of index 0.
C17_Witness ==
    \E p \in Procs :
        /\ args[p].op = "exists"
        /\ pc[p] = "done"
        /\ result[p].exists = FALSE
        /\ \E c \in containers : c.name = ResourceName(p) \o <<"-", "1">>
        /\ \A c \in containers : c.name # ResourceName(p)

\* The stage of deploy_fatman a remote command belongs to: 1 the removal of
\* the previous instance (the queries and the docker rm), 2 the port
\* listing, 3 the network, 4 the containers.
StageOf(kind) ==
    IF kind \in {"ps_a", "rm"} THEN 1
    ELSE IF kind = "ps" THEN 2
    ELSE IF kind = "network_create" THEN 3
    ELSE 4

\* The running primary container of p's workload that the call found
PrimaryFound(p) ==
    LET base == ResourceName(p)
    IN  { c \in host_before[p] : c.name = base /\ c.state = "running" /\ c.port # 0 }

\* C18: the remote commands of one deploy come in stages: every query and
\* docker rm of the previous instance, then the one port listing, then the
\* docker network create, then the docker run commands; so the primary the
\* call found is off the host when the ports are listed, and a deploy of a
\* workload whose running primary held port p (calls made one after the
\* other) is allocated a port that is at most p.
C18_RemovalPrecedesAllocation ==
    \A p \in Procs :
        IsDeploy(p) =>
            LET found == PrimaryFound(p)
                base == ResourceName(p)
            IN  /\ \A i \in 1..(Len(cmds[p]) - 1) :
                    StageOf(cmds[p][i].cmd) <= StageOf(cmds[p][i + 1].cmd)
                /\ Len(CmdsOfKind(p, "ps")) <= 1
                /\ (found # {} /\ CmdsOfKind(p, "ps") # <<>>) =>
                    /\ \E i \in DOMAIN cmds[p] :
                        /\ cmds[p][i].cmd = "rm"
                        /\ cmds[p][i].name = base
                        /\ cmds[p][i].returncode = 0
                    /\ \A c \in found :
                        /\ c \notin containers
                        /\ locals[p].fatman_port <= c.port

\* A deploy that found the running primary of its workload on port 7000,
\* removed it, listed the ports and has got as far as its docker run.
C18_Witness ==
    \E p \in Procs :
        /\ IsDeploy(p)
        /\ \E c \in PrimaryFound(p) : c.port = PortRangeStart
        /\ CmdsOfKind(p, "rm") # <<>>
        /\ CmdsOfKind(p, "network_create") # <<>>
        /\ CmdsOfKind(p, "run") # <<>>
        /\ locals[p].fatman_port = PortRangeStart

\* The host held the container of index 0 of p's workload when the call began.
PrimaryPresentAtStart(p) ==
    LET base == ResourceName(p)
    IN  \E c \in host_before[p] : c.name = base

\* The call of p is past the removal of the previous instance.
PastRemoval(p) == pc[p] \in {"ports", "prepare", "network", "run", "done"}

\* C19: a deploy issues docker rm commands exactly when the host holds the
\* container of index 0 of its workload as the call begins; when it does
\* not, the deploy removes nothing and every container the call found is
\* still on the host, the container of index 1 of the workload included.
\* The docker rm commands of a deploy and of a delete name only the
\* containers base and base-1 of the call's own workload, and every
\* container of another name that the call found is on the host unchanged.
C19_RemovesOnlyItsOwnTwo ==
    \A p \in Procs :
        (IsDeploy(p) \/ args[p].op = "delete") =>
            LET slots == TwoSlots(p)
                present == PrimaryPresentAtStart(p)
                removals == CmdsOfKind(p, "rm")
            IN  /\ \A i \in DOMAIN removals : removals[i].name \in slots
                /\ \A c \in host_before[p] : c.name \notin slots => c \in containers
                /\ (IsDeploy(p) /\ ~present) =>
                    /\ removals = <<>>
                    /\ host_before[p] \subseteq containers
                /\ (IsDeploy(p) /\ present /\ PastRemoval(p)) =>
                    /\ removals # <<>>
                    /\ removals[1].name = ResourceName(p)
                    /\ \A c \in host_before[p] : c.name \in slots => c \notin containers

\* A deploy of a workload whose container of index 1 is on the host without
\* the one of index 0: the call is past the removal stage, has issued no
\* docker rm, and the container of index 1 is still there.
C19_Witness ==
    \E p \in Procs :
        /\ IsDeploy(p)
        /\ PastRemoval(p)
        /\ ~PrimaryPresentAtStart(p)
        /\ CmdsOfKind(p, "rm") = <<>>
        /\ CmdsOfKind(p, "ps") # <<>>
        /\ \E c \in host_before[p] :
            /\ c.name = ResourceName(p) \o <<"-", "1">>
            /\ c \in containers

====
